---- MODULE Spec2Model ----
(***************************************************************************)
(* State-machine model of tools/mechjeb_smoke.py: the kRPC MechJeb smoke   *)
(* test.  One run of main() is modelled: connect, the four walks           *)
(* (basic service, modules, ascent compatibility, operations), the         *)
(* finally-clause closing the connection, and the report.                  *)
(*                                                                         *)
(* Text is modelled at word granularity: a message, a detail or an output  *)
(* line is a sequence of words, "marker in msg" is "marker is a contiguous *)
(* run of words of msg", and str.lower() lowers every word.  Probe names   *)
(* are strings built with \o exactly as the f-strings build them.          *)
(*                                                                         *)
(* The remote service is the environment: every remote read or call is an  *)
(* input of the action that performs it (success with a value, or an       *)
(* exception carrying a message).  close() and print() are taken to        *)
(* return normally, and only failures that are Python Exceptions are       *)
(* modelled (KeyboardInterrupt / SystemExit are not).                      *)
(***************************************************************************)
EXTENDS Integers, Sequences, FiniteSets, TLC

VARIABLES
    pc,          \* position of main() / the walker that is running
    results,     \* the Ledger: List[CheckResult] of main()
    conn,        \* "none" | "open" | "closed": the krpc connection
    closes,      \* how many times conn.close() has been called
    output,      \* lines printed to stdout so far
    exitCode,    \* value returned by main(), NoExit while running
    mutate,      \* args.make_nodes
    pending,     \* exit code decided before the finally clause ran, or NoExit
    mj,          \* value returned by probe_basic_service
    obj,         \* module / ascent / planner / op currently held by a walker
    ts,          \* time_selector of the current operation
    i,           \* index in the catalog being walked
    j,           \* index in the member list / step inside an ascent triple
    nodes,       \* maneuver nodes on the remote active vessel
    faults,      \* non-nominal remote outcomes injected so far
    attempts,    \* log of the probes attempted, in order
    last         \* the latest remote read or call and what came of it

vars == <<pc, results, conn, closes, output, exitCode, mutate, pending, mj, obj,
          ts, i, j, nodes, faults, attempts, last>>

(***************************************************************************)
(* Bounds of the model.                                                    *)
(***************************************************************************)
NumModules   == 2   \* modules of the module catalog that are walked
NumChecks    == 2   \* triples of the ascent catalog that are walked
NumOps       == 2   \* operations of the operation catalog that are walked
MaxFaults    == 1   \* non-nominal remote outcomes per run
InitialNodes == 1   \* maneuver nodes on the vessel before the run
NodesPerOp   == 1   \* nodes a successful make_nodes() creates

NoExit == -1

(***************************************************************************)
(* Text helpers.                                                           *)
(***************************************************************************)
\* marker in msg, on word sequences
Contains(msg, marker) ==
    \E k \in 0..(Len(msg) - Len(marker)) :
        SubSeq(msg, k + 1, k + Len(marker)) = marker

\* str.lower() of one word
LowerWord(w) ==
    CASE w = "NullReferenceException"    -> "nullreferenceexception"
      [] w = "TargetInvocationException" -> "targetinvocationexception"
      [] w = "MissingFieldException"     -> "missingfieldexception"
      [] w = "MissingMethodException"    -> "missingmethodexception"
      [] w = "TypeLoadException"         -> "typeloadexception"
      [] w = "No"                        -> "no"
      [] w = "Transfer"                  -> "transfer"
      [] w = "Target"                    -> "target"
      [] OTHER                           -> w

\* str.lower() of a message
Lower(msg) == [k \in 1..Len(msg) |-> LowerWord(msg[k])]

Digit == <<"0", "1", "2", "3", "4", "5", "6", "7", "8", "9">>

RECURSIVE NumStr(_)
\* f"{n}" for a non-negative int
NumStr(n) == IF n < 10 THEN Digit[n + 1]
             ELSE NumStr(n \div 10) \o Digit[(n % 10) + 1]

(***************************************************************************)
(* Module constants of the program.                                        *)
(***************************************************************************)
CRASH_MARKERS == <<
    <<"NullReferenceException">>,
    <<"TargetInvocationException">>,
    <<"MissingFieldException">>,
    <<"MissingMethodException">>,
    <<"TypeLoadException">> >>

EXPECTED_OPERATION_MARKERS == <<
    <<"target">>,
    <<"inclination">>,
    <<"intercept">>,
    <<"cannot">>,
    <<"not", "allowed">>,
    <<"no", "transfer">>,
    <<"no", "maneuver">>,
    <<"no", "maneuver", "parameters">> >>

CheckResult(name, status, detail) ==
    [name |-> name, status |-> status, detail |-> detail]

(***************************************************************************)
(* Values a remote read can return, and repr() of them.                    *)
(***************************************************************************)
VNone  == "v_none"     \* None
VTrue  == "v_true"     \* True
VFalse == "v_false"    \* False
VObj   == "v_object"   \* a remote object handle
VStr   == "0.5.4"      \* a str

Repr(v) ==
    CASE v = VNone  -> <<"None">>
      [] v = VTrue  -> <<"True">>
      [] v = VFalse -> <<"False">>
      [] v = VObj   -> <<"<", "RemoteObject", ">">>
      [] OTHER      -> <<"'" \o v \o "'">>

\* The failure messages the environment raises: one with a crash marker and
\* an expected-operation marker, one with an expected-operation marker in
\* another case and a crash marker in another case, one with no marker.
MsgCrashExpected == <<"NullReferenceException", "no", "target">>
MsgExpected      == <<"nullreferenceexception", "No", "Transfer", "window">>
MsgGeneric       == <<"timeout">>
\* the messages raised into a two-tier classifier (where MsgExpected and
\* MsgGeneric fall in one class) and into the three-tier classifier
Messages      == {MsgCrashExpected, MsgExpected}
Messages3Tier == {MsgCrashExpected, MsgExpected, MsgGeneric}

Ok(v)     == [ok |-> TRUE,  val |-> v,     msg |-> <<>>]
Raise(m)  == [ok |-> FALSE, val |-> VNone, msg |-> m]

(***************************************************************************)
(* The classifier, the Safe Invoker and the Capability Prober.             *)
(***************************************************************************)
\* any(marker in msg for marker in CRASH_MARKERS)
HasCrashMarker(msg) ==
    \E k \in 1..Len(CRASH_MARKERS) : Contains(msg, CRASH_MARKERS[k])

is_expected_operation_error(message) ==
    LET lower == Lower(message)
    IN  \E k \in 1..Len(EXPECTED_OPERATION_MARKERS) :
            Contains(lower, EXPECTED_OPERATION_MARKERS[k])

\* status chosen by the except-clause of safe_read
SafeReadStatus(msg) == IF HasCrashMarker(msg) THEN "FAIL_CRASH" ELSE "FAIL"

\* mutant: the except-clause re-raises instead of recording
safe_read_reraise(res, name, o) ==
    IF o.ok
    THEN [results |-> Append(res, CheckResult(name, "PASS", Repr(o.val))),
          ret |-> o.val, raised |-> FALSE]
    ELSE [results |-> res, ret |-> VNone, raised |-> TRUE]

\* safe_read(results, name, fn), o being the outcome of the one call fn():
\* the new Ledger, the value returned, and whether an exception leaves it
safe_read(res, name, o) ==
    IF o.ok
    THEN [results |-> Append(res, CheckResult(name, "PASS", Repr(o.val))),
          ret |-> o.val, raised |-> FALSE]
    ELSE [results |-> Append(res, CheckResult(name, SafeReadStatus(o.msg), o.msg)),
          ret |-> VNone, raised |-> FALSE]

\* mutant: the last exposed name wins (aliases override the canonical name)
FirstExposed_last(names, exposed) ==
    LET hits == {k \in 1..Len(names) : names[k] \in exposed}
    IN  IF hits = {} THEN 0
        ELSE CHOOSE k \in hits : \A h \in hits : k >= h

\* names = [attr] + (aliases or []); the first of them in exposed, or 0
FirstExposed(names, exposed) ==
    LET hits == {k \in 1..Len(names) : names[k] \in exposed}
    IN  IF hits = {} THEN 0
        ELSE CHOOSE k \in hits : \A h \in hits : k <= h

\* safe_attr(results, owner_name, obj, attr, aliases): d is the outcome of
\* dir(obj) (d.exposed the member set), o the outcome of the getattr
safe_attr(res, owner_name, d, attr, aliases, o) ==
    LET names == <<attr>> \o aliases
        k     == FirstExposed(names, d.exposed)
    IN  IF ~d.ok
        THEN [results |-> Append(res, CheckResult(owner_name \o "." \o attr, "FAIL",
                                  <<"cannot", "inspect", "attributes:">> \o d.msg)),
              ret |-> VNone, raised |-> FALSE, read |-> 0]
        ELSE IF k # 0
        THEN safe_read(res, owner_name \o "." \o names[k], o) @@ [read |-> k]
        ELSE [results |-> Append(res, CheckResult(owner_name \o "." \o attr, "SKIP",
                  <<"attribute", "not", "exposed", "by", "this", "client/service", "build">>)),
              ret |-> VNone, raised |-> FALSE, read |-> 0]

\* mutant: the two-tier classifier at the make_nodes call site
MakeNodesStatus_two_tier(msg) == SafeReadStatus(msg)

\* status chosen by the except-clause around make_nodes / clear_nodes
MakeNodesStatus(msg) ==
    IF HasCrashMarker(msg) THEN "FAIL_CRASH"
    ELSE IF is_expected_operation_error(msg) THEN "EXPECTED_FAIL"
    ELSE "FAIL"

(***************************************************************************)
(* The Reporter.                                                           *)
(***************************************************************************)
\* the characters of a status, in groups
Spelling(status) ==
    CASE status = "PASS"          -> <<"PASS">>
      [] status = "SKIP"          -> <<"SKIP">>
      [] status = "FAIL"          -> <<"FAIL">>
      [] status = "FAIL_CRASH"    -> <<"FAIL", "_", "CRASH">>
      [] status = "EXPECTED_FAIL" -> <<"EXPECTED", "_", "FAIL">>

\* status.startswith(prefix)
StartsWith(status, prefix) ==
    LET s == Spelling(status)
    IN  Len(prefix) <= Len(s) /\ SubSeq(s, 1, Len(prefix)) = prefix

\* mutant: "FAIL" in r.status
IsFail_anywhere(r) ==
    \E k \in 1..Len(Spelling(r.status)) : Spelling(r.status)[k] = "FAIL"

\* r.status.startswith("FAIL")
IsFail(r) == StartsWith(r.status, <<"FAIL">>)

\* f"[{r.status}] {r.name}: {r.detail}"
ReportLine(r) == <<"[", r.status, "]", r.name, ":">> \o r.detail

\* mutant: "return 1 if fail or expected else 0"
summarize_expected_fails(res) ==
    [lines |-> [k \in 1..Len(res) |-> ReportLine(res[k])],
     code  |-> IF \E k \in 1..Len(res) : IsFail(res[k]) \/ res[k].status = "EXPECTED_FAIL"
               THEN 1 ELSE 0]

\* summarize(results): the lines it prints and the code it returns
summarize(res) ==
    LET fail     == SelectSeq(res, IsFail)
        expected == SelectSeq(res, LAMBDA r : r.status = "EXPECTED_FAIL")
        skipped  == SelectSeq(res, LAMBDA r : r.status = "SKIP")
    IN  [lines |-> [k \in 1..Len(res) |-> ReportLine(res[k])]
                   \o << <<>>,
                          <<"Summary:", "total=", NumStr(Len(res)),
                            "fail=", NumStr(Len(fail)),
                            "expected_fail=", NumStr(Len(expected)),
                            "skipped=", NumStr(Len(skipped))>> >>,
         code  |-> IF Len(fail) > 0 THEN 1 ELSE 0]

(***************************************************************************)
(* The catalogs of the walkers.                                            *)
(***************************************************************************)
modules == <<
    [name |-> "airplane_autopilot",     props |-> <<"enabled">>],
    [name |-> "ascent_autopilot",       props |-> <<"enabled", "ascent_path_index", "autostage">>],
    [name |-> "docking_autopilot",      props |-> <<"enabled", "speed_limit">>],
    [name |-> "landing_autopilot",      props |-> <<"enabled", "touchdown_speed">>],
    [name |-> "rendezvous_autopilot",   props |-> <<"enabled", "desired_distance", "max_phasing_orbits">>],
    [name |-> "maneuver_planner",       props |-> <<>>],
    [name |-> "smart_ass",              props |-> <<"autopilot_mode", "force_roll", "force_pitch", "force_yaw">>],
    [name |-> "smart_rcs",              props |-> <<"auto_disable_smart_rcs">>],
    [name |-> "translatron",            props |-> <<"trans_spd">>],
    [name |-> "antenna_controller",     props |-> <<"auto_deploy">>],
    [name |-> "node_executor",          props |-> <<"enabled", "autowarp", "lead_time", "tolerance">>],
    [name |-> "rcs_controller",         props |-> <<"rcs_for_rotation", "rcs_throttle">>],
    [name |-> "staging_controller",     props |-> <<"enabled", "autostage_limit">>],
    [name |-> "solar_panel_controller", props |-> <<"auto_deploy">>],
    [name |-> "target_controller",      props |-> <<"normal_target_exists", "position_target_exists", "can_align">>],
    [name |-> "thrust_controller",      props |-> <<"limit_dynamic_pressure", "limit_acceleration", "limit_throttle">>],
    [name |-> "warp_controller",        props |-> <<"enabled", "warp_paused", "activate_sas_on_warp", "use_quick_warp">>] >>

checks == <<
    [prop |-> "desired_orbit_altitude",   method |-> "try_set_desired_orbit_altitude"],
    [prop |-> "limit_ao_a",               method |-> "try_set_limit_ao_a"],
    [prop |-> "limit_ao_a",               method |-> "try_get_limit_ao_a"],
    [prop |-> "max_ao_a",                 method |-> "try_set_max_ao_a"],
    [prop |-> "max_ao_a",                 method |-> "try_get_max_ao_a"],
    [prop |-> "corrective_steering",      method |-> "try_set_corrective_steering"],
    [prop |-> "corrective_steering",      method |-> "try_get_corrective_steering"],
    [prop |-> "corrective_steering_gain", method |-> "try_set_corrective_steering_gain"],
    [prop |-> "corrective_steering_gain", method |-> "try_get_corrective_steering_gain"],
    [prop |-> "force_roll",               method |-> "try_set_force_roll"],
    [prop |-> "skip_circularization",     method |-> "try_set_skip_circularization"],
    [prop |-> "skip_circularization",     method |-> "try_get_skip_circularization"] >>

operations == <<
    "operation_apoapsis", "operation_circularize", "operation_course_correction",
    "operation_ellipticize", "operation_inclination", "operation_interplanetary_transfer",
    "operation_kill_rel_vel", "operation_lambert", "operation_lan", "operation_longitude",
    "operation_moon_return", "operation_periapsis", "operation_plane",
    "operation_resonant_orbit", "operation_semi_major", "operation_transfer" >>

\* the catalogs as walked within the bounds
LastModule == IF NumModules < Len(modules) THEN NumModules ELSE Len(modules)
LastCheck  == IF NumChecks < Len(checks) THEN NumChecks ELSE Len(checks)
LastOp     == IF NumOps < Len(operations) THEN NumOps ELSE Len(operations)

(***************************************************************************)
(* The environment: outcomes of remote reads and calls.                    *)
(***************************************************************************)
Budget == faults < MaxFaults

\* outcomes of a read whose nominal value is v; others are its unusual values
Outcomes(v, others, msgs, budget) ==
    {Ok(v)} \cup (IF budget THEN {Ok(w) : w \in others} \cup {Raise(m) : m \in msgs}
                  ELSE {})

\* outcomes of dir(obj) for a member probed under names: nominally the
\* canonical name alone is exposed
DirOutcomes(names, budget) ==
    {[ok |-> TRUE, exposed |-> {names[1]}, msg |-> <<>>]}
    \cup (IF budget
          THEN {[ok |-> TRUE, exposed |-> e, msg |-> <<>>] :
                    e \in (SUBSET {names[k] : k \in 1..Len(names)}) \ {{names[1]}}}
               \cup {[ok |-> FALSE, exposed |-> {}, msg |-> m] : m \in Messages}
          ELSE {})

IsNominalDir(d, names) == d.ok /\ d.exposed = {names[1]}

Cost(b) == IF b THEN 0 ELSE 1

\* a remote read or call: where it is made, under which probe name, its
\* outcome, the value the probing function handed back to its caller and
\* whether that function let an exception out
Call(site, name, o, r) ==
    [site |-> site, name |-> name, ok |-> o.ok, val |-> o.val, msg |-> o.msg,
     ret |-> r.ret, raised |-> r.raised,
     via |-> "direct", owner |-> "", names |-> <<>>, exposed |-> {}]

\* one entry of the log of attempted probes: the function that made it, the
\* kind of probe, the name it was given, whether its remote reads/calls
\* succeeded, and the length of the Ledger when it started
Attempt(by, site, name, ok) ==
    [by |-> by, site |-> site, name |-> name, ok |-> ok, at |-> Len(results)]

UnhandledLines ==
    << <<"[FAIL]", "unhandled", "exception", "during", "smoke", "test">>,
       <<"Traceback">> >>

\* control after one probe of a walker: on to (p, ni, nj), or to the
\* except-clause of main() when the probe let an exception out
Walk(r, p, ni, nj) ==
    /\ results' = r.results
    /\ IF r.raised
       THEN /\ pc' = "finally"
            /\ pending' = 3
            /\ output' = output \o UnhandledLines
            /\ UNCHANGED <<i, j>>
       ELSE /\ pc' = p
            /\ i' = ni
            /\ j' = nj
            /\ UNCHANGED <<pending, output>>

(***************************************************************************)
(* main(): construction and connect.                                       *)
(***************************************************************************)
Init ==
    /\ pc = "start"
    /\ results = <<>>
    /\ conn = "none"
    /\ closes = 0
    /\ output = <<>>
    /\ exitCode = NoExit
    /\ mutate \in BOOLEAN
    /\ pending = NoExit
    /\ mj = VNone
    /\ obj = VNone
    /\ ts = VNone
    /\ i = 0
    /\ j = 0
    /\ nodes = InitialNodes
    /\ faults = 0
    /\ attempts = <<>>
    /\ last = Call("none", "", Ok(VNone), [ret |-> VNone, raised |-> FALSE])

\* krpc.connect(...) and its except-clause
connect ==
    /\ pc = "start"
    /\ \/ /\ conn' = "open"
          /\ pc' = "krpc_version"
          /\ UNCHANGED <<output, exitCode>>
       \/ \E m \in Messages :
          /\ output' = Append(output, <<"[FAIL]", "connect:">> \o m)
          /\ exitCode' = 2
          /\ pc' = "done"
          /\ UNCHANGED conn
    /\ UNCHANGED <<results, closes, mutate, pending, mj, obj, ts, i, j, nodes, faults, attempts, last>>

(***************************************************************************)
(* probe_basic_service                                                     *)
(***************************************************************************)
probe_krpc_version ==
    /\ pc = "krpc_version"
    /\ \E o \in Outcomes(VStr, {}, Messages, Budget) :
       LET r == safe_read(results, "krpc.version", o)
       IN  /\ Walk(r, "mech_jeb", i, j)
           /\ faults' = faults + Cost(o = Ok(VStr))
           /\ attempts' = Append(attempts, Attempt("probe_basic_service", "safe_read", "krpc.version", o.ok))
           /\ last' = Call("safe_read", "krpc.version", o, r)
    /\ UNCHANGED <<conn, closes, exitCode, mutate, mj, obj, ts, nodes>>

probe_service_mech_jeb ==
    /\ pc = "mech_jeb"
    /\ \E o \in Outcomes(VObj, {}, Messages, Budget) :
       LET r == safe_read(results, "service.mech_jeb", o)
       IN  /\ mj' = r.ret
           /\ IF r.ret = VNone
              THEN Walk(r, "finally", i, j)
              ELSE Walk(r, "api_ready", i, j)
           /\ faults' = faults + Cost(o = Ok(VObj))
           /\ attempts' = Append(attempts, Attempt("probe_basic_service", "safe_read", "service.mech_jeb", o.ok))
           /\ last' = Call("safe_read", "service.mech_jeb", o, r)
    /\ UNCHANGED <<conn, closes, exitCode, mutate, obj, ts, nodes>>

\* mutant: "if not ready" in place of "if ready is False"
probe_api_ready_falsy ==
    /\ pc = "api_ready"
    /\ \E o \in Outcomes(VTrue, {VFalse}, Messages, Budget) :
       LET r     == safe_read(results, "mech_jeb.api_ready", o)
           ready == r.ret
           r2    == IF ready \in {VFalse, VNone}
                    THEN [r EXCEPT !.results =
                             Append(r.results, CheckResult("mech_jeb.api_ready", "FAIL",
                                                           <<"API", "is", "not", "ready">>))]
                    ELSE r
       IN  /\ Walk(r2, "module", 1, 0)
           /\ faults' = faults + Cost(o = Ok(VTrue))
           /\ attempts' = Append(attempts, Attempt("probe_basic_service", "safe_read", "mech_jeb.api_ready", o.ok))
           /\ last' = Call("safe_read", "mech_jeb.api_ready", o, r)
    /\ UNCHANGED <<conn, closes, exitCode, mutate, mj, obj, ts, nodes>>

probe_api_ready ==
    /\ pc = "api_ready"
    /\ \E o \in Outcomes(VTrue, {VFalse}, Messages, Budget) :
       LET r     == safe_read(results, "mech_jeb.api_ready", o)
           ready == r.ret
           r2    == IF ready = VFalse
                    THEN [r EXCEPT !.results =
                             Append(r.results, CheckResult("mech_jeb.api_ready", "FAIL",
                                                           <<"API", "is", "not", "ready">>))]
                    ELSE r
       IN  /\ Walk(r2, "module", 1, 0)
           /\ faults' = faults + Cost(o = Ok(VTrue))
           /\ attempts' = Append(attempts, Attempt("probe_basic_service", "safe_read", "mech_jeb.api_ready", o.ok))
           /\ last' = Call("safe_read", "mech_jeb.api_ready", o, r)
    /\ UNCHANGED <<conn, closes, exitCode, mutate, mj, obj, ts, nodes>>

(***************************************************************************)
(* probe_modules                                                           *)
(***************************************************************************)
\* control after module k: the next module, or on to probe_ascent_compat
AfterModule(r, k) ==
    IF k < LastModule THEN Walk(r, "module", k + 1, 0)
    ELSE Walk(r, "ascent_fetch", 0, 0)

\* mutant: "if module is None: continue" left out
probe_modules_fetch_no_continue ==
    /\ pc = "module"
    /\ \E o \in Outcomes(VObj, {VNone}, Messages, Budget) :
       LET name == "module." \o modules[i].name
           r    == safe_read(results, name, o)
       IN  /\ obj' = r.ret
           /\ IF Len(modules[i].props) = 0
              THEN AfterModule(r, i)
              ELSE Walk(r, "member", i, 1)
           /\ faults' = faults + Cost(o = Ok(VObj))
           /\ attempts' = Append(attempts, Attempt("probe_modules", "safe_read", name, o.ok))
           /\ last' = Call("safe_read", name, o, r)
    /\ UNCHANGED <<conn, closes, exitCode, mutate, mj, ts, nodes>>

probe_modules_fetch ==
    /\ pc = "module"
    /\ \E o \in Outcomes(VObj, {VNone}, Messages, Budget) :
       LET name == "module." \o modules[i].name
           r    == safe_read(results, name, o)
       IN  /\ obj' = r.ret
           /\ IF r.ret = VNone \/ Len(modules[i].props) = 0
              THEN AfterModule(r, i)
              ELSE Walk(r, "member", i, 1)
           /\ faults' = faults + Cost(o = Ok(VObj))
           /\ attempts' = Append(attempts, Attempt("probe_modules", "safe_read", name, o.ok))
           /\ last' = Call("safe_read", name, o, r)
    /\ UNCHANGED <<conn, closes, exitCode, mutate, mj, ts, nodes>>

\* the log entry of one safe_attr
AttrAttempt(by, owner, names, d, o, r) ==
    Attempt(by, "safe_attr", owner \o "." \o names[1], d.ok /\ (r.read = 0 \/ o.ok))

\* the latest remote call of one safe_attr: the getattr when one is made,
\* the dir() otherwise; with the arguments of the safe_attr and the member
\* set dir() returned
AttrCall(owner, names, d, o, r) ==
    [(IF r.read # 0
      THEN Call("safe_read", owner \o "." \o names[r.read], o, r)
      ELSE Call("dir", owner \o "." \o names[1], d @@ [val |-> VNone], r))
     EXCEPT !.via = "safe_attr", !.owner = owner, !.names = names,
            !.exposed = d.exposed]

\* the inputs of one safe_attr under the fault budget: the outcome d of
\* dir(obj) and, when a getattr follows, its outcome o
AttrInputs(names, nominal, others) ==
    {io \in [d : DirOutcomes(names, Budget),
             o : Outcomes(nominal, others, Messages, Budget)] :
        /\ (~io.d.ok \/ FirstExposed(names, io.d.exposed) = 0) => io.o = Ok(nominal)
        /\ faults + Cost(IsNominalDir(io.d, names)) + Cost(io.o = Ok(nominal)) <= MaxFaults}

AttrCost(io, names, nominal) ==
    Cost(IsNominalDir(io.d, names)) + Cost(io.o = Ok(nominal))

probe_modules_member ==
    /\ pc = "member"
    /\ \E io \in AttrInputs(<<modules[i].props[j]>>, VTrue, {}) :
       LET owner == modules[i].name
           prop  == modules[i].props[j]
           r     == safe_attr(results, owner, io.d, prop, <<>>, io.o)
       IN  /\ IF j < Len(modules[i].props)
              THEN Walk(r, "member", i, j + 1)
              ELSE AfterModule(r, i)
           /\ faults' = faults + AttrCost(io, <<prop>>, VTrue)
           /\ attempts' = Append(attempts, AttrAttempt("probe_modules", owner, <<prop>>, io.d, io.o, r))
           /\ last' = AttrCall(owner, <<prop>>, io.d, io.o, r)
    /\ UNCHANGED <<conn, closes, exitCode, mutate, mj, obj, ts, nodes>>

(***************************************************************************)
(* probe_ascent_compat                                                     *)
(***************************************************************************)
probe_ascent_fetch ==
    /\ pc = "ascent_fetch"
    /\ \E o \in Outcomes(VObj, {VNone}, Messages, Budget) :
       LET r == safe_read(results, "module.ascent_autopilot", o)
       IN  /\ obj' = r.ret
           /\ IF r.ret = VNone
              THEN Walk(r, "planner", 0, 0)
              ELSE Walk(r, "ascent", 1, 1)
           /\ faults' = faults + Cost(o = Ok(VObj))
           /\ attempts' = Append(attempts, Attempt("probe_ascent_compat", "safe_read", "module.ascent_autopilot", o.ok))
           /\ last' = Call("safe_read", "module.ascent_autopilot", o, r)
    /\ UNCHANGED <<conn, closes, exitCode, mutate, mj, ts, nodes>>

\* the name of probe k (1..3) of the triple c
AscentProbeName(c, k) ==
    CASE k = 1 -> "ascent.is_property_available(" \o c.prop \o ")"
      [] k = 2 -> "ascent.get_unavailable_reason(" \o c.prop \o ")"
      [] k = 3 -> "ascent." \o c.method

\* mutant: the rest of a triple is skipped when is_property_available fails
\* or reports false
probe_ascent_check_gated ==
    /\ pc = "ascent"
    /\ \E o \in Outcomes(VTrue, {VFalse}, Messages, Budget) :
       LET name == AscentProbeName(checks[i], j)
           r    == safe_read(results, name, o)
           stop == j = 1 /\ r.ret # VTrue
       IN  /\ IF j < 3 /\ ~stop THEN Walk(r, "ascent", i, j + 1)
              ELSE IF i < LastCheck THEN Walk(r, "ascent", i + 1, 1)
              ELSE Walk(r, "planner", 0, 0)
           /\ faults' = faults + Cost(o = Ok(VTrue))
           /\ attempts' = Append(attempts, Attempt("probe_ascent_compat", "safe_read", name, o.ok))
           /\ last' = Call("safe_read", name, o, r)
    /\ UNCHANGED <<conn, closes, exitCode, mutate, mj, obj, ts, nodes>>

\* one of the three safe_read calls of the loop body
probe_ascent_check ==
    /\ pc = "ascent"
    /\ \E o \in Outcomes(VTrue, {VFalse}, Messages, Budget) :
       LET name == AscentProbeName(checks[i], j)
           r    == safe_read(results, name, o)
       IN  /\ IF j < 3 THEN Walk(r, "ascent", i, j + 1)
              ELSE IF i < LastCheck THEN Walk(r, "ascent", i + 1, 1)
              ELSE Walk(r, "planner", 0, 0)
           /\ faults' = faults + Cost(o = Ok(VTrue))
           /\ attempts' = Append(attempts, Attempt("probe_ascent_compat", "safe_read", name, o.ok))
           /\ last' = Call("safe_read", name, o, r)
    /\ UNCHANGED <<conn, closes, exitCode, mutate, mj, obj, ts, nodes>>

(***************************************************************************)
(* probe_operations                                                        *)
(***************************************************************************)
probe_operations_planner ==
    /\ pc = "planner"
    /\ \E o \in Outcomes(VObj, {VNone}, Messages, Budget) :
       LET r == safe_read(results, "maneuver_planner", o)
       IN  /\ obj' = r.ret
           /\ IF r.ret = VNone
              THEN Walk(r, "finally", 0, 0)
              ELSE Walk(r, "op", 1, 0)
           /\ faults' = faults + Cost(o = Ok(VObj))
           /\ attempts' = Append(attempts, Attempt("probe_operations", "safe_read", "maneuver_planner", o.ok))
           /\ last' = Call("safe_read", "maneuver_planner", o, r)
    /\ UNCHANGED <<conn, closes, exitCode, mutate, mj, ts, nodes>>

\* control at the end of the loop body of operation k (and at its continue
\* statements): the next operation, or out of the try of main()
AfterOp(r, k) ==
    IF k < LastOp THEN Walk(r, "op", k + 1, 0)
    ELSE Walk(r, "finally", 0, 0)

\* mutant: the mutate flag is not consulted
AfterSelector_always(r, k) ==
    Walk(r, "make_nodes", k, 0)

\* control after the time_selector probes: "if not make_nodes: continue"
AfterSelector(r, k) ==
    IF ~mutate THEN AfterOp(r, k)
    ELSE Walk(r, "make_nodes", k, 0)

\* mutant: an operation that cannot be fetched ends the walk ("return"
\* in place of "continue")
probe_op_fetch_return ==
    /\ pc = "op"
    /\ \E o \in Outcomes(VObj, {VNone}, Messages, Budget) :
       LET name == "op." \o operations[i]
           r    == safe_read(results, name, o)
       IN  /\ obj' = r.ret
           /\ IF r.ret = VNone
              THEN Walk(r, "finally", 0, 0)
              ELSE Walk(r, "op_error_message", i, 0)
           /\ faults' = faults + Cost(o = Ok(VObj))
           /\ attempts' = Append(attempts, Attempt("probe_operations", "safe_read", name, o.ok))
           /\ last' = Call("safe_read", name, o, r)
    /\ UNCHANGED <<conn, closes, exitCode, mutate, mj, ts, nodes>>

probe_op_fetch ==
    /\ pc = "op"
    /\ \E o \in Outcomes(VObj, {VNone}, Messages, Budget) :
       LET name == "op." \o operations[i]
           r    == safe_read(results, name, o)
       IN  /\ obj' = r.ret
           /\ IF r.ret = VNone
              THEN AfterOp(r, i)
              ELSE Walk(r, "op_error_message", i, 0)
           /\ faults' = faults + Cost(o = Ok(VObj))
           /\ attempts' = Append(attempts, Attempt("probe_operations", "safe_read", name, o.ok))
           /\ last' = Call("safe_read", name, o, r)
    /\ UNCHANGED <<conn, closes, exitCode, mutate, mj, ts, nodes>>

probe_op_error_message ==
    /\ pc = "op_error_message"
    /\ \E o \in Outcomes(VStr, {}, Messages, Budget) :
       LET name == "op." \o operations[i] \o ".error_message"
           r    == safe_read(results, name, o)
       IN  /\ Walk(r, "op_time_selector", i, 0)
           /\ faults' = faults + Cost(o = Ok(VStr))
           /\ attempts' = Append(attempts, Attempt("probe_operations", "safe_read", name, o.ok))
           /\ last' = Call("safe_read", name, o, r)
    /\ UNCHANGED <<conn, closes, exitCode, mutate, mj, obj, ts, nodes>>

probe_op_time_selector ==
    /\ pc = "op_time_selector"
    /\ \E io \in AttrInputs(<<"time_selector">>, VObj, {VNone}) :
       LET owner == "op." \o operations[i]
           r     == safe_attr(results, owner, io.d, "time_selector", <<>>, io.o)
       IN  /\ ts' = r.ret
           /\ IF r.ret # VNone
              THEN Walk(r, "op_time_reference", i, 0)
              ELSE AfterSelector(r, i)
           /\ faults' = faults + AttrCost(io, <<"time_selector">>, VObj)
           /\ attempts' = Append(attempts, AttrAttempt("probe_operations", owner, <<"time_selector">>, io.d, io.o, r))
           /\ last' = AttrCall(owner, <<"time_selector">>, io.d, io.o, r)
    /\ UNCHANGED <<conn, closes, exitCode, mutate, mj, obj, nodes>>

probe_op_time_reference ==
    /\ pc = "op_time_reference"
    /\ \E io \in AttrInputs(<<"time_reference", "current_time_reference">>, VStr, {}) :
       LET owner == "op." \o operations[i] \o ".time_selector"
           names == <<"time_reference", "current_time_reference">>
           r     == safe_attr(results, owner, io.d, "time_reference",
                              <<"current_time_reference">>, io.o)
       IN  /\ Walk(r, "op_allowed_time_references", i, 0)
           /\ faults' = faults + AttrCost(io, names, VStr)
           /\ attempts' = Append(attempts, AttrAttempt("probe_operations", owner, names, io.d, io.o, r))
           /\ last' = AttrCall(owner, names, io.d, io.o, r)
    /\ UNCHANGED <<conn, closes, exitCode, mutate, mj, obj, ts, nodes>>

probe_op_allowed_time_references ==
    /\ pc = "op_allowed_time_references"
    /\ \E io \in AttrInputs(<<"allowed_time_references">>, VObj, {}) :
       LET owner == "op." \o operations[i] \o ".time_selector"
           names == <<"allowed_time_references">>
           r     == safe_attr(results, owner, io.d, "allowed_time_references", <<>>, io.o)
       IN  /\ AfterSelector(r, i)
           /\ faults' = faults + AttrCost(io, names, VObj)
           /\ attempts' = Append(attempts, AttrAttempt("probe_operations", owner, names, io.d, io.o, r))
           /\ last' = AttrCall(owner, names, io.d, io.o, r)
    /\ UNCHANGED <<conn, closes, exitCode, mutate, mj, obj, ts, nodes>>

\* mutant: clear_nodes moved to a finally-clause
make_nodes_try_finally(res, op_name, o, count) ==
    IF o.ok
    THEN [results |-> Append(res, CheckResult("op." \o op_name \o ".make_nodes", "PASS",
                                              <<"nodes=", NumStr(count)>>)),
          cleanup |-> TRUE, raised |-> FALSE]
    ELSE [results |-> Append(res, CheckResult("op." \o op_name \o ".make_nodes",
                                              MakeNodesStatus(o.msg), o.msg)),
          cleanup |-> TRUE, raised |-> FALSE]

\* the try-block of the loop body up to clear_nodes, o being the outcome of
\* op.make_nodes() and count the len() of the list it returned: the new
\* Ledger and whether control reaches clear_nodes
make_nodes_try(res, op_name, o, count) ==
    IF o.ok
    THEN [results |-> Append(res, CheckResult("op." \o op_name \o ".make_nodes", "PASS",
                                              <<"nodes=", NumStr(count)>>)),
          cleanup |-> TRUE, raised |-> FALSE]
    ELSE [results |-> Append(res, CheckResult("op." \o op_name \o ".make_nodes",
                                              MakeNodesStatus(o.msg), o.msg)),
          cleanup |-> FALSE, raised |-> FALSE]

probe_op_make_nodes ==
    /\ pc = "make_nodes"
    /\ \E o \in Outcomes(VObj, {}, Messages3Tier, Budget) :
       LET r == make_nodes_try(results, operations[i], o, NodesPerOp)
       IN  /\ IF r.cleanup
              THEN Walk(r, "clear_nodes", i, 0)
              ELSE AfterOp(r, i)
           /\ nodes' = IF o.ok THEN nodes + NodesPerOp ELSE nodes
           /\ faults' = faults + Cost(o = Ok(VObj))
           /\ attempts' = Append(attempts, Attempt("probe_operations", "make_nodes",
                                   "op." \o operations[i] \o ".make_nodes", o.ok))
           /\ last' = Call("make_nodes", "op." \o operations[i] \o ".make_nodes", o,
                           r @@ [ret |-> VNone])
    /\ UNCHANGED <<conn, closes, exitCode, mutate, mj, obj, ts>>

\* mutant: a failed cleanup rewrites the PASS entry of make_nodes in place
clear_nodes_overwrite(res, op_name, o, removed) ==
    IF o.ok
    THEN [results |-> Append(res, CheckResult("space_center.clear_nodes", "PASS",
                                              <<"removed=", NumStr(removed)>>)),
          raised |-> FALSE]
    ELSE [results |-> [res EXCEPT ![Len(res)] =
                           CheckResult("op." \o op_name \o ".make_nodes",
                                       MakeNodesStatus(o.msg), o.msg)],
          raised |-> FALSE]

\* clear_nodes(conn, results) as called inside the try-block of operation
\* op_name, o being its outcome and removed the nodes removed before it
\* returned or raised; a failure lands in the except-clause of the loop body
clear_nodes(res, op_name, o, removed) ==
    IF o.ok
    THEN [results |-> Append(res, CheckResult("space_center.clear_nodes", "PASS",
                                              <<"removed=", NumStr(removed)>>)),
          raised |-> FALSE]
    ELSE [results |-> Append(res, CheckResult("op." \o op_name \o ".make_nodes",
                                              MakeNodesStatus(o.msg), o.msg)),
          raised |-> FALSE]

probe_op_clear_nodes ==
    /\ pc = "clear_nodes"
    /\ \E o \in Outcomes(VObj, {}, Messages3Tier, Budget) :
       \E removed \in 0..nodes :
          /\ o.ok => removed = nodes
          /\ ~o.ok => removed < nodes
          /\ LET r == clear_nodes(results, operations[i], o, removed)
             IN  /\ AfterOp(r, i)
                 /\ nodes' = nodes - removed
                 /\ faults' = faults + Cost(o = Ok(VObj))
                 /\ attempts' = Append(attempts, Attempt("probe_operations", "clear_nodes",
                                         "space_center.clear_nodes", o.ok))
                 /\ last' = Call("clear_nodes", "space_center.clear_nodes", o,
                                 r @@ [ret |-> VNone])
    /\ UNCHANGED <<conn, closes, exitCode, mutate, mj, obj, ts>>

(***************************************************************************)
(* main(): the except- and finally-clauses and the report.                 *)
(***************************************************************************)
ProbingPcs == {"krpc_version", "mech_jeb", "api_ready", "module", "member",
               "ascent_fetch", "ascent", "planner", "op", "op_error_message",
               "op_time_selector", "op_time_reference", "op_allowed_time_references",
               "make_nodes"}

\* mutant: conn.close() after the try instead of in a finally-clause
unhandled_no_finally ==
    /\ pc \in ProbingPcs
    /\ Budget
    /\ faults' = faults + 1
    /\ output' = output \o UnhandledLines
    /\ pending' = 3
    /\ exitCode' = 3
    /\ pc' = "done"
    /\ UNCHANGED <<results, conn, closes, mutate, mj, obj, ts, i, j, nodes, attempts, last>>

\* "except Exception": an exception raised by the walkers outside every
\* try of a probe is caught by main(), which prints and returns 3.  (At
\* "clear_nodes" control is inside the try of the loop body, whose
\* except-clause catches everything: nothing escapes from there.)
unhandled ==
    /\ pc \in ProbingPcs
    /\ Budget
    /\ faults' = faults + 1
    /\ output' = output \o UnhandledLines
    /\ pending' = 3
    /\ pc' = "finally"
    /\ UNCHANGED <<results, conn, closes, exitCode, mutate, mj, obj, ts, i, j, nodes, attempts, last>>

\* mutant: the return of the except-clause is lost, the report always runs
finally_close_then_report ==
    /\ pc = "finally"
    /\ conn' = "closed"
    /\ closes' = closes + 1
    /\ attempts' = Append(attempts, Attempt("main", "close", "conn.close", TRUE))
    /\ pc' = "summarize"
    /\ UNCHANGED <<results, output, exitCode, mutate, pending, mj, obj, ts, i, j, nodes, faults, last>>

\* "finally: conn.close()", then the pending return or on to summarize
finally_close ==
    /\ pc = "finally"
    /\ conn' = "closed"
    /\ closes' = closes + 1
    /\ attempts' = Append(attempts, Attempt("main", "close", "conn.close", TRUE))
    /\ IF pending # NoExit
       THEN pc' = "done" /\ exitCode' = pending
       ELSE pc' = "summarize" /\ UNCHANGED exitCode
    /\ UNCHANGED <<results, output, mutate, pending, mj, obj, ts, i, j, nodes, faults, last>>

\* "return summarize(results)"
report ==
    /\ pc = "summarize"
    /\ LET s == summarize(results)
       IN  /\ output' = output \o s.lines
           /\ exitCode' = s.code
    /\ pc' = "done"
    /\ UNCHANGED <<results, conn, closes, mutate, pending, mj, obj, ts, i, j, nodes, faults, attempts, last>>

Next ==
    \/ connect
    \/ probe_krpc_version
    \/ probe_service_mech_jeb
    \/ probe_api_ready
    \/ probe_modules_fetch
    \/ probe_modules_member
    \/ probe_ascent_fetch
    \/ probe_ascent_check
    \/ probe_operations_planner
    \/ probe_op_fetch
    \/ probe_op_error_message
    \/ probe_op_time_selector
    \/ probe_op_time_reference
    \/ probe_op_allowed_time_references
    \/ probe_op_make_nodes
    \/ probe_op_clear_nodes
    \/ unhandled
    \/ finally_close
    \/ report

Spec == Init /\ [][Next]_vars

\* main() is one sequential thread: whenever a statement is left to execute,
\* one is executed (every remote call returns or raises)
SpecLive == Spec /\ WF_vars(Next)

(***************************************************************************)
(* The Reporter alone: summarize applied to every Ledger of at most        *)
(* MaxLedger entries.                                                      *)
(***************************************************************************)
MaxLedger == 3

Statuses == {"PASS", "FAIL", "FAIL_CRASH", "EXPECTED_FAIL", "SKIP"}

Ledgers ==
    UNION {[1..n -> {CheckResult("probe", st, <<"detail">>) : st \in Statuses}] :
               n \in 0..MaxLedger}

ReporterInit ==
    /\ pc = "summarize"
    /\ results \in Ledgers
    /\ conn = "closed"
    /\ closes = 1
    /\ output = <<>>
    /\ exitCode = NoExit
    /\ mutate = FALSE
    /\ pending = NoExit
    /\ mj = VObj
    /\ obj = VObj
    /\ ts = VNone
    /\ i = 0
    /\ j = 0
    /\ nodes = InitialNodes
    /\ faults = 0
    /\ attempts = <<>>
    /\ last = Call("none", "", Ok(VNone), [ret |-> VNone, raised |-> FALSE])

SpecReporter == ReporterInit /\ [][report]_vars

(***************************************************************************)
(* Properties.                                                             *)
(***************************************************************************)
FailStatuses == {"FAIL", "FAIL_CRASH"}

\* the Ledger res holds no FAIL and no FAIL_CRASH entry
NoFailIn(res) == \A k \in 1..Len(res) : res[k].status \notin FailStatuses

\* C1: every failure recorded in the Ledger whose message contains a crash
\* marker has status FAIL_CRASH (whatever else the message contains) -- at
\* the safe_read call sites, at make_nodes and at the introspection step of
\* safe_attr alike.
C1_CrashMarkerIsFailCrash ==
    \A k \in 1..Len(results) :
        (/\ results[k].status \in {"FAIL", "FAIL_CRASH", "EXPECTED_FAIL"}
         /\ HasCrashMarker(results[k].detail))
            => results[k].status = "FAIL_CRASH"

\* C2 as stated: at the end of every run of main, the exit code is 0 if and
\* only if the Ledger holds no FAIL or FAIL_CRASH entry.
C2_ExitZeroIffNoFail ==
    pc = "done" => (exitCode = 0 <=> NoFailIn(results))

\* C2 as amended: a run whose connect fails exits 2 and a run in which a
\* failure escapes probing exits 3, whatever the Ledger holds; every other
\* run exits 0 or 1, and 0 if and only if the Ledger holds no FAIL or
\* FAIL_CRASH entry.  In every run exit code 0 implies no such entry.
C2_ReporterExitCode ==
    pc = "done" =>
        /\ conn = "none" => exitCode = 2
        /\ (conn # "none" /\ pending = 3) => exitCode = 3
        /\ (conn # "none" /\ pending = NoExit) =>
               /\ exitCode \in {0, 1}
               /\ exitCode = 0 <=> NoFailIn(results)
        /\ exitCode = 0 => NoFailIn(results)

\* C2 witness: a run that reached the Reporter with an EXPECTED_FAIL entry
\* in the Ledger and exited 0.
C2_Witness ==
    /\ pc = "done"
    /\ exitCode = 0
    /\ \E k \in 1..Len(results) : results[k].status = "EXPECTED_FAIL"

InsertAt(res, k, e) == SubSeq(res, 1, k) \o <<e>> \o SubSeq(res, k + 1, Len(res))
RemoveAt(res, k)    == SubSeq(res, 1, k - 1) \o SubSeq(res, k + 1, Len(res))

\* C3: summarize returns 1 when some entry is FAIL or FAIL_CRASH and 0
\* otherwise, and adding or removing an EXPECTED_FAIL, SKIP or PASS entry
\* anywhere does not change what it returns.
C3_SummarizeCode ==
    pc = "done" =>
        /\ exitCode = IF NoFailIn(results) THEN 0 ELSE 1
        /\ \A st \in {"EXPECTED_FAIL", "SKIP", "PASS"} : \A k \in 0..Len(results) :
               summarize(InsertAt(results, k, CheckResult("extra", st, <<>>))).code = exitCode
        /\ \A k \in 1..Len(results) :
               results[k].status \in {"EXPECTED_FAIL", "SKIP", "PASS"}
                   => summarize(RemoveAt(results, k)).code = exitCode

\* C3 witness: summarize returned 0 on a Ledger holding an EXPECTED_FAIL, a
\* SKIP and a PASS entry.
C3_Witness ==
    /\ pc = "done"
    /\ exitCode = 0
    /\ \A st \in {"EXPECTED_FAIL", "SKIP", "PASS"} :
           \E k \in 1..Len(results) : results[k].status = st

\* the positions of conn.close() in the log of attempts
CloseAttempts == {k \in 1..Len(attempts) : attempts[k].site = "close"}

\* C4: after a successful connect the connection is closed exactly once on
\* every exit path of main (normal end, service object absent, a failure
\* escaping probing with exit code 3), and nothing is attempted after the
\* close.
C4_ClosedExactlyOnce ==
    /\ closes = Cardinality(CloseAttempts)
    /\ closes <= 1
    /\ CloseAttempts # {} => CloseAttempts = {Len(attempts)}
    /\ (pc = "done" /\ conn # "none") => (closes = 1 /\ conn = "closed")

\* C4 witness: a run in which a failure escaped probing after some probes,
\* ended with exit code 3 and the connection closed.
C4_Witness ==
    /\ pc = "done"
    /\ exitCode = 3
    /\ conn = "closed"
    /\ Len(attempts) > 2

\* C5: in every run that connected, every entry of the Ledger has been
\* printed as a report line when main returns, exit code 3 included.
C5_LedgerAlwaysPrinted ==
    (pc = "done" /\ conn # "none") =>
        \A k \in 1..Len(results) :
            \E n \in 1..Len(output) : output[n] = ReportLine(results[k])

\* the attempted probes (the log of attempts without the close)
Probes == SelectSeq(attempts, LAMBDA a : a.site # "close")

\* C6: every attempted probe has exactly one Ledger entry, in the order of
\* the attempts: the k-th probe started with k-1 entries in the Ledger, the
\* Ledger holds as many entries as probes were attempted, and the k-th
\* entry carries the name of the k-th read or call.
C6_OneEntryPerProbe ==
    /\ Len(results) = Len(Probes)
    /\ \A k \in 1..Len(Probes) :
           /\ Probes[k].at = k - 1
           /\ (k <= Len(results) /\ Probes[k].site \in {"safe_read", "make_nodes", "clear_nodes"})
                  => results[k].name = Probes[k].name

\* the latest attempted probe
LastProbe == Probes[Len(Probes)]

\* C7: a safe_read call appends exactly one entry and never raises: on
\* success the entry is (name, PASS, repr(value)) and the value is returned,
\* on failure it is (name, FAIL or FAIL_CRASH, message) and None is
\* returned.  (The second entry after mech_jeb.api_ready = False is appended
\* by probe_basic_service, not by safe_read.)
C7_SafeReadContract ==
    last.site = "safe_read" =>
        /\ ~last.raised
        /\ Len(results) = LastProbe.at + 1
                          + (IF last.name = "mech_jeb.api_ready" /\ last.ret = VFalse
                             THEN 1 ELSE 0)
        /\ LET e == results[LastProbe.at + 1]
           IN  IF last.ok
               THEN /\ e = CheckResult(last.name, "PASS", Repr(last.val))
                    /\ last.ret = last.val
               ELSE /\ e.name = last.name
                    /\ e.status \in FailStatuses
                    /\ e.detail = last.msg
                    /\ last.ret = VNone

\* C7 witness: a safe_read whose operation failed, recorded as FAIL_CRASH.
C7_Witness ==
    /\ last.site = "safe_read"
    /\ ~last.ok
    /\ results[Len(results)] = CheckResult(last.name, "FAIL_CRASH", last.msg)

\* C8: a failure whose message has no crash marker but an expected-operation
\* marker (in any case) is recorded EXPECTED_FAIL at the make_nodes call and
\* FAIL at a safe_read call; only op.<operation>.make_nodes entries are
\* ever EXPECTED_FAIL.
C8_ExpectedMarkerClassification ==
    /\ (/\ last.site \in {"safe_read", "make_nodes"}
        /\ ~last.ok
        /\ ~HasCrashMarker(last.msg)
        /\ is_expected_operation_error(last.msg))
           => results[LastProbe.at + 1].status =
                  (IF last.site = "make_nodes" THEN "EXPECTED_FAIL" ELSE "FAIL")
    /\ \A k \in 1..Len(results) :
           results[k].status = "EXPECTED_FAIL"
               => \E n \in 1..Len(operations) :
                      results[k].name = "op." \o operations[n] \o ".make_nodes"

\* C8 witness: make_nodes raised "No Transfer window" (no crash marker, an
\* expected-operation marker in another case), recorded EXPECTED_FAIL.
C8_Witness ==
    /\ last.site = "make_nodes"
    /\ last.msg = MsgExpected
    /\ results[Len(results)].status = "EXPECTED_FAIL"

\* C9: clear_nodes is attempted exactly after a make_nodes call that
\* succeeded, as the very next thing attempted (so before the next operation
\* is fetched), and never after a make_nodes call that failed.
C9_CleanupIffMakeNodesSucceeded ==
    \A k \in 1..Len(attempts) :
        /\ attempts[k].site = "clear_nodes"
               => (k > 1 /\ attempts[k - 1].site = "make_nodes" /\ attempts[k - 1].ok)
        /\ attempts[k].site = "make_nodes"
               => IF k < Len(attempts)
                  THEN attempts[k].ok <=> attempts[k + 1].site = "clear_nodes"
                  ELSE attempts[k].ok <=> pc = "clear_nodes"

\* C9 witness: a cleanup ran after a successful make_nodes and the next
\* operation was fetched right after it.
C9_Witness ==
    \E k \in 2..Len(attempts) :
        /\ attempts[k - 1].site = "clear_nodes"
        /\ attempts[k].name = "op." \o operations[2]

\* the catalog index of the module fetched under probe name
ModuleIndex(name) == CHOOSE m \in 1..LastModule : name = "module." \o modules[m].name

\* C10: in the module walk, a module whose fetch fails gets exactly one
\* Ledger entry module.<name>, none of its members is probed (no entry
\* <name>.<member>), and the walk goes on with the next module (with
\* probe_ascent_compat after the last one), unless an exception escapes the
\* walkers to main's except-clause first.
C10_FailedModuleSkipped ==
    \A k \in 1..Len(attempts) :
        LET a == attempts[k]
        IN  (a.by = "probe_modules" /\ a.site = "safe_read" /\ ~a.ok) =>
            LET m == ModuleIndex(a.name)
            IN  /\ results[a.at + 1].name = a.name
                /\ results[a.at + 1].status \in FailStatuses
                /\ Cardinality({n \in 1..Len(attempts) :
                                   attempts[n].by = "probe_modules"
                                   /\ attempts[n].name = a.name}) = 1
                /\ \A n \in 1..Len(results) : \A p \in 1..Len(modules[m].props) :
                       results[n].name # modules[m].name \o "." \o modules[m].props[p]
                /\ IF k < Len(attempts)
                   THEN LET b == attempts[k + 1]
                        IN  /\ b.at = a.at + 1
                            /\ \/ b.site = "close" /\ pending = 3
                               \/ /\ m < LastModule
                                  /\ b.by = "probe_modules"
                                  /\ b.site = "safe_read"
                                  /\ b.name = "module." \o modules[m + 1].name
                               \/ /\ m = LastModule
                                  /\ b.by = "probe_ascent_compat"
                   ELSE /\ Len(results) = a.at + 1
                        /\ \/ pc = "finally" /\ pending = 3
                           \/ m < LastModule /\ pc = "module" /\ i = m + 1
                           \/ m = LastModule /\ pc = "ascent_fetch"

\* C10 witness: the fetch of the first module failed and the next thing
\* attempted was the fetch of the second module.
C10_Witness ==
    \E k \in 1..(Len(attempts) - 1) :
        /\ attempts[k].by = "probe_modules"
        /\ attempts[k].name = "module." \o modules[1].name
        /\ ~attempts[k].ok
        /\ attempts[k + 1].by = "probe_modules"
        /\ attempts[k + 1].name = "module." \o modules[2].name

\* C11: safe_attr resolves to the first of canonical, aliases... that the
\* object exposes: it reads exactly that member and records the entry under
\* owner.<matched name> (the canonical name whenever it is exposed); when no
\* name is exposed it reads nothing, appends one SKIP entry named
\* owner.<canonical> and returns None.
C11_SafeAttrResolution ==
    (last.via = "safe_attr" /\ (last.site = "safe_read" \/ last.ok)) =>
        LET hits == {k \in 1..Len(last.names) : last.names[k] \in last.exposed}
            e    == results[LastProbe.at + 1]
        IN  /\ Len(results) = LastProbe.at + 1
            /\ IF hits = {}
               THEN /\ last.site = "dir"
                    /\ e.name = last.owner \o "." \o last.names[1]
                    /\ e.status = "SKIP"
                    /\ last.ret = VNone
               ELSE \E k \in hits :
                    /\ \A h \in hits : k <= h
                    /\ last.site = "safe_read"
                    /\ last.name = last.owner \o "." \o last.names[k]
                    /\ e.name = last.name
                    /\ e.status \in {"PASS", "FAIL", "FAIL_CRASH"}
                    /\ (last.names[1] \in last.exposed => k = 1)

\* C11 witness: only the alias current_time_reference is exposed, it is
\* read, and the entry is recorded under the alias.
C11_Witness ==
    /\ last.via = "safe_attr"
    /\ last.exposed = {"current_time_reference"}
    /\ last.site = "safe_read"
    /\ results[Len(results)].name =
           "op." \o operations[1] \o ".time_selector.current_time_reference"

\* the Ledger names of the mutating probes
MutatingNames ==
    {"op." \o operations[n] \o ".make_nodes" : n \in 1..LastOp}
        \cup {"space_center.clear_nodes"}

\* C12: with the mutate flag disabled a run never calls make_nodes or
\* clear_nodes: no such call is attempted, the Ledger has no entry named
\* op.<operation>.make_nodes or space_center.clear_nodes, and no maneuver
\* node is added or removed.
C12_NoMutationWithoutFlag ==
    ~mutate =>
        /\ \A k \in 1..Len(attempts) :
               /\ attempts[k].site \notin {"make_nodes", "clear_nodes"}
               /\ attempts[k].name \notin MutatingNames
        /\ \A k \in 1..Len(results) : results[k].name \notin MutatingNames
        /\ nodes = InitialNodes
        /\ pc \notin {"make_nodes", "clear_nodes"}

\* C12 witness: a finished run without the flag that walked the operations
\* up to the time selector of the last one.
C12_Witness ==
    /\ ~mutate
    /\ pc = "done"
    /\ exitCode = 0
    /\ \E k \in 1..Len(results) :
           results[k].name = "op." \o operations[LastOp] \o ".time_selector"

\* a is a prefix of b
IsPrefix(a, b) ==
    /\ Len(a) <= Len(b)
    /\ \A k \in 1..Len(a) : a[k] = b[k]

\* C13: the Ledger is append-only: in every step of a run the previous
\* Ledger is a prefix of the new one, so no entry is ever removed, reordered
\* or modified.
C13_LedgerAppendOnly ==
    [][IsPrefix(results, results')]_vars

\* C13 witness: a failed cleanup (the step that records a second entry for
\* the same operation) has left the PASS entry of make_nodes in place.
C13_Witness ==
    /\ last.site = "clear_nodes"
    /\ ~last.ok
    /\ Len(results) >= 2
    /\ results[Len(results) - 1].status = "PASS"
    /\ results[Len(results) - 1].name = results[Len(results)].name

\* the attempts of probe_ascent_compat, in order: the fetch, then the walk
AscentAttempts == SelectSeq(attempts, LAMBDA a : a.by = "probe_ascent_compat")

\* the ascent fetch returned an object
AscentFetched ==
    /\ AscentAttempts # <<>>
    /\ LET e == results[AscentAttempts[1].at + 1]
       IN  e.status = "PASS" /\ e.detail # Repr(VNone)

\* control has left probe_ascent_compat by its normal end
AscentWalkOver ==
    \/ pc \in {"planner", "op", "op_error_message", "op_time_selector",
               "op_time_reference", "op_allowed_time_references",
               "make_nodes", "clear_nodes"}
    \/ pc \in {"finally", "summarize", "done"} /\ pending = NoExit
    \/ \E k \in 1..Len(attempts) : attempts[k].by = "probe_operations"

\* C14: once the ascent object is fetched, the walk probes every triple of
\* the catalog with exactly three reads in the order is_property_available,
\* get_unavailable_reason, setter/getter: the (3t+k)-th read of the walk is
\* probe k of triple t+1 whatever the outcomes before it, and the walk ends
\* only after the third read of the last triple (or by an exception
\* escaping to main).
C14_AscentTriples ==
    LET n == Len(AscentAttempts)
    IN  /\ n >= 1 => AscentAttempts[1].name = "module.ascent_autopilot"
        /\ ~AscentFetched => n <= 1
        /\ n <= 1 + 3 * LastCheck
        /\ \A q \in 2..n :
               AscentAttempts[q].name =
                   AscentProbeName(checks[((q - 2) \div 3) + 1], ((q - 2) % 3) + 1)
        /\ (AscentFetched /\ AscentWalkOver) => n = 1 + 3 * LastCheck

\* C14 witness: is_property_available of the first triple failed, and the
\* setter of the first triple and the reads of the last triple were
\* attempted all the same.
C14_Witness ==
    /\ Len(AscentAttempts) = 1 + 3 * LastCheck
    /\ AscentAttempts[2].name = AscentProbeName(checks[1], 1)
    /\ ~AscentAttempts[2].ok
    /\ AscentAttempts[4].name = "ascent." \o checks[1].method
    /\ AscentAttempts[1 + 3 * LastCheck].name = "ascent." \o checks[LastCheck].method

\* the connect failure was reported (the run never had a connection)
ConnectFailed ==
    /\ conn = "none"
    /\ output # <<>>
    /\ Len(output[1]) >= 2
    /\ SubSeq(output[1], 1, 2) = <<"[FAIL]", "connect:">>

\* an exception reached the except-clause of main
Escaped == \E k \in 1..Len(output) : output[k] = UnhandledLines[1]

\* C15: a finished run exits with 2 exactly when connect failed, and then
\* no probe was attempted and the Ledger is empty; with 3 exactly when an
\* exception escaped probing; and otherwise with the Reporter's code (0 or
\* 1) for the final Ledger.  No exit code is set before the run ends.
C15_ExitCodes ==
    IF pc # "done" THEN exitCode = NoExit
    ELSE /\ exitCode \in {0, 1, 2, 3}
         /\ exitCode = 2 <=> ConnectFailed
         /\ exitCode = 2 => attempts = <<>> /\ results = <<>> /\ closes = 0
         /\ exitCode = 3 <=> Escaped
         /\ exitCode \in {0, 1} =>
                /\ conn = "closed"
                /\ exitCode = summarize(results).code

\* C15 witness: a run with entries in the Ledger, none of them a failure,
\* that ended with exit code 3.
C15_Witness ==
    /\ pc = "done"
    /\ exitCode = 3
    /\ Len(results) >= 2
    /\ summarize(results).code = 0

\* the Ledger has an entry of that name
HasEntry(name) == \E k \in 1..Len(results) : results[k].name = name

\* the planner fetch returned an object
PlannerObtained ==
    \E k \in 1..Len(results) :
        /\ results[k].name = "maneuver_planner"
        /\ results[k].status = "PASS"
        /\ results[k].detail # Repr(VNone)

MakeNodesNames == {"op." \o operations[n] \o ".make_nodes" : n \in 1..LastOp}

\* C18: every PASS entry op.<operation>.make_nodes is immediately followed
\* in the Ledger by an entry named space_center.clear_nodes, and no
\* operation has more than one op.<operation>.make_nodes entry, also when
\* the cleanup fails.
C18_CleanupEntryFollows ==
    /\ \A k \in 1..(Len(results) - 1) :
           (results[k].name \in MakeNodesNames /\ results[k].status = "PASS")
               => results[k + 1].name = "space_center.clear_nodes"
    /\ \A k1, k2 \in 1..Len(results) :
           (k1 < k2 /\ results[k1].name \in MakeNodesNames)
               => results[k2].name # results[k1].name

\* the first dependent probe of the fetch logged as attempt a: its name, or
\* "" when a is no fetch or has no dependents
FirstDependent(a) ==
    CASE a.name = "service.mech_jeb" -> "mech_jeb.api_ready"
      [] a.by = "probe_modules" /\ a.site = "safe_read" ->
            LET m == modules[ModuleIndex(a.name)]
            IN  IF m.props = <<>> THEN "" ELSE m.name \o "." \o m.props[1]
      [] a.by = "probe_ascent_compat" /\ a.name = "module.ascent_autopilot" ->
            AscentProbeName(checks[1], 1)
      [] a.name = "maneuver_planner" -> "op." \o operations[1]
      [] a.name \in {"op." \o operations[n] : n \in 1..LastOp} ->
            a.name \o ".error_message"
      [] OTHER -> ""

\* C19: a fetch recorded as PASS is never followed by skipping its
\* dependent probes: the probe attempted next is the first dependent of the
\* fetched object (unless an exception escaped to main first), so that
\* dependents are skipped only after a fetch entry FAIL or FAIL_CRASH.
C19_SkipOnlyAfterFailedFetch ==
    \A k \in 1..(Len(attempts) - 1) :
        LET a == attempts[k]
            b == attempts[k + 1]
        IN  (/\ a.site # "close"
             /\ FirstDependent(a) # ""
             /\ results[a.at + 1].status = "PASS")
            => \/ b.name = FirstDependent(a)
               \/ b.site = "close" /\ Escaped

\* the entry probe_basic_service adds when the API reports not ready
NotReadyEntry ==
    CheckResult("mech_jeb.api_ready", "FAIL", <<"API", "is", "not", "ready">>)

\* the Ledger positions named mech_jeb.api_ready
ApiReadyEntries == {k \in 1..Len(results) : results[k].name = "mech_jeb.api_ready"}

\* the three walkers were entered
WalksRan ==
    /\ \A m \in 1..LastModule : HasEntry("module." \o modules[m].name)
    /\ AscentAttempts # <<>>
    /\ HasEntry("maneuver_planner")

\* C20: when the read of mech_jeb.api_ready succeeds with False, a FAIL
\* entry of the same name follows its PASS entry immediately, the walks of
\* modules, ascent and operations still run and the run exits with 1
\* (unless an exception escapes to main); when the read returns another
\* value or fails, its entry is the only one named mech_jeb.api_ready.
C20_ApiNotReady ==
    \A k \in 1..Len(attempts) :
        attempts[k].name = "mech_jeb.api_ready" =>
            LET p == attempts[k].at + 1
            IN  IF results[p].status = "PASS" /\ results[p].detail = Repr(VFalse)
                THEN /\ Len(results) >= p + 1
                     /\ results[p + 1] = NotReadyEntry
                     /\ ApiReadyEntries = {p, p + 1}
                     /\ k < Len(attempts) =>
                            \/ attempts[k + 1].name = "module." \o modules[1].name
                            \/ attempts[k + 1].site = "close" /\ Escaped
                     /\ (pc = "done" /\ ~Escaped) => (WalksRan /\ exitCode = 1)
                ELSE /\ ApiReadyEntries = {p}
                     /\ NotReadyEntry \notin {results[q] : q \in 1..Len(results)}

\* C20 witness: a finished run in which api_ready was read as False and
\* nothing else went wrong: the two entries are adjacent, the operations
\* were walked, the exit code is 1.
C20_Witness ==
    /\ pc = "done"
    /\ exitCode = 1
    /\ \E p \in 1..(Len(results) - 1) :
           /\ results[p] = CheckResult("mech_jeb.api_ready", "PASS", Repr(VFalse))
           /\ results[p + 1] = NotReadyEntry
    /\ HasEntry("op." \o operations[LastOp])

====
